---- MODULE Spec2Model ----
(***************************************************************************)
(* Model of the upload and transcription pipeline of smart-classroom:      *)
(*   src/src/lib/fileUpload.ts            FileUploadService                *)
(*   src/src/lib/transcriptionService.ts  TranscriptionService             *)
(*   src/unnamed/part_003                 setPrimaryFile of the upload form *)
(* Texts are sequences of one-character strings.  An optional value is a   *)
(* sequence of length 0 (null / undefined) or 1 (the value).               *)
(* An action is one continuation of an async function: the response of the *)
(* awaited collaborator together with all the code that runs up to the     *)
(* next await.                                                             *)
(***************************************************************************)
EXTENDS Integers, Sequences, FiniteSets, TLC

\* ------------------------------------------------------------------ bounds
NumCalls == 2
MaxStarted == 1
MaxTime == 0
MaxResultEvents == 1
MaxFileOps == 4
MaxTripOps == 2
MaxTextLen == 4
MaxSummaryLen == 8
MaxTens == 9
MaxNameLen == 3
MaxPathTime == 1
MaxUploads == 2
MaxPending == 1
MaxFormUploads == 4
MaxFormTime == 1

Calls == 1..NumCalls

\* ------------------------------------------------------------- text helpers
None == <<>>
Some(v) == <<v>>

IsSpace(ch) == ch \in {" ", "\n"}

Last(s) == s[Len(s)]

RECURSIVE TrimStart(_)
TrimStart(s) ==
  IF s = <<>> THEN <<>>
  ELSE IF IsSpace(Head(s)) THEN TrimStart(Tail(s)) ELSE s

RECURSIVE TrimEnd(_)
TrimEnd(s) ==
  IF s = <<>> THEN <<>>
  ELSE IF IsSpace(Last(s)) THEN TrimEnd(SubSeq(s, 1, Len(s) - 1)) ELSE s

\* String.prototype.trim
Trim(s) == TrimEnd(TrimStart(s))

\* replace(/\s+/g, ' '): every maximal run of whitespace becomes one space
RECURSIVE CollapseWhitespace(_)
CollapseWhitespace(s) ==
  IF s = <<>> THEN <<>>
  ELSE IF IsSpace(Head(s))
       THEN <<" ">> \o CollapseWhitespace(TrimStart(s))
       ELSE <<Head(s)>> \o CollapseWhitespace(Tail(s))

LowerCase == <<"a", "b", "c", "d", "e", "f", "g", "h", "i", "j", "k", "l", "m",
               "n", "o", "p", "q", "r", "s", "t", "u", "v", "w", "x", "y", "z">>
UpperCase == <<"A", "B", "C", "D", "E", "F", "G", "H", "I", "J", "K", "L", "M",
               "N", "O", "P", "Q", "R", "S", "T", "U", "V", "W", "X", "Y", "Z">>
Digits == {"0", "1", "2", "3", "4", "5", "6", "7", "8", "9"}

\* String.prototype.toUpperCase on one character
ToUpperCase(ch) ==
  IF \E i \in 1..26 : LowerCase[i] = ch
  THEN UpperCase[CHOOSE i \in 1..26 : LowerCase[i] = ch]
  ELSE ch

TerminalMarks == {".", "!", "?"}

\* Faulty variant: the period is appended whatever the text ends in
formatTranscriptAlwaysPeriod(transcript) ==
  IF transcript = <<>> THEN <<>>
  ELSE LET formatted == Trim(CollapseWhitespace(transcript))
           punctuated == IF formatted # <<>> THEN Append(formatted, ".") ELSE formatted
       IN  IF punctuated = <<>> THEN <<>>
           ELSE <<ToUpperCase(Head(punctuated))>> \o Tail(punctuated)

\* TranscriptionService.formatTranscript
formatTranscript(transcript) ==
  IF transcript = <<>> THEN <<>>
  ELSE LET formatted == Trim(CollapseWhitespace(transcript))
           punctuated == IF formatted # <<>> /\ Last(formatted) \notin TerminalMarks
                         THEN Append(formatted, ".")
                         ELSE formatted
       IN  IF punctuated = <<>> THEN <<>>
           ELSE <<ToUpperCase(Head(punctuated))>> \o Tail(punctuated)

\* String.prototype.substring(0, end)
substring(s, end) == SubSeq(s, 1, IF end < Len(s) THEN end ELSE Len(s))

\* String.prototype.lastIndexOf(ch): the index counts from 0, -1 when absent
lastIndexOf(s, ch) ==
  LET found == {i \in 1..Len(s) : s[i] = ch}
  IN  IF found = {} THEN -1
      ELSE (CHOOSE i \in found : \A j \in found : j <= i) - 1

\* the largest power of two that is at most n (n >= 1)
PowerOfTwoBelow(n) ==
  CHOOSE e \in {2, 4, 8, 16, 32, 64, 128, 256, 512} \cup {1} : e <= n /\ n < 2 * e

\* lastSentenceEnd > maxLength * 0.7 as the double product decides it.  The
\* double nearest to 0.7 is 0.7 - 4/(10 * 2^53), so the product is below
\* 7 * maxLength / 10 by 4 * maxLength / (10 * 2^53) before rounding.  When
\* the index is not exactly 70% the comparison is the exact one; when it is,
\* the product rounds to the index itself unless that deficit exceeds half the
\* spacing of the doubles below the index (the tie goes to the index, whose
\* significand is even).
PastThreshold(lastSentenceEnd, maxLength) ==
  IF 10 * lastSentenceEnd # 7 * maxLength
  THEN 10 * lastSentenceEnd > 7 * maxLength
  ELSE /\ lastSentenceEnd > 0
       /\ 4 * (maxLength \div 10) > PowerOfTwoBelow(lastSentenceEnd)

\* TranscriptionService.generateSummary
generateSummary(transcript, maxLength) ==
  IF transcript = <<>> THEN <<>>
  ELSE IF Len(transcript) <= maxLength THEN transcript
  ELSE LET truncated == substring(transcript, maxLength)
           ends == {lastIndexOf(truncated, "."), lastIndexOf(truncated, "!"),
                    lastIndexOf(truncated, "?")}
           lastSentenceEnd == CHOOSE i \in ends : \A j \in ends : j <= i
       IN  IF PastThreshold(lastSentenceEnd, maxLength)
           THEN substring(truncated, lastSentenceEnd + 1)
           ELSE truncated \o <<".", ".", ".">>

\* --------------------------------------------------- FileUploadService data
MAX_FILE_SIZE == 100 * 1024 * 1024

ALLOWED_TYPES ==
  [audio |-> {"audio/mpeg", "audio/wav", "audio/mp3", "audio/webm", "audio/ogg"},
   pdf |-> {"application/pdf"},
   presentation |-> {"application/vnd.ms-powerpoint",
                     "application/vnd.openxmlformats-officedocument.presentationml.presentation"},
   document |-> {"application/msword",
                 "application/vnd.openxmlformats-officedocument.wordprocessingml.document"},
   video |-> {"video/mp4", "video/webm", "video/ogg"}]

\* Object.entries order of ALLOWED_TYPES
KindOrder == <<"audio", "pdf", "presentation", "document", "video">>

\* FileUploadService.getFileType: the first kind whose list includes the
\* MIME type, None for null
getFileType(mimeType) ==
  IF \E i \in 1..Len(KindOrder) : mimeType \in ALLOWED_TYPES[KindOrder[i]]
  THEN LET i == CHOOSE j \in 1..Len(KindOrder) :
                  /\ mimeType \in ALLOWED_TYPES[KindOrder[j]]
                  /\ \A k \in 1..(j - 1) : mimeType \notin ALLOWED_TYPES[KindOrder[k]]
       IN  Some(KindOrder[i])
  ELSE None

\* Faulty variant: a file of exactly the maximum size is refused
validateFileExclusiveBound(file) ==
  IF file.size >= MAX_FILE_SIZE
  THEN [valid |-> FALSE, error |-> "File size must be less than 100MB"]
  ELSE IF getFileType(file.type) = None
       THEN [valid |-> FALSE, error |-> "Unsupported file type"]
       ELSE [valid |-> TRUE, error |-> ""]

\* FileUploadService.validateFile
validateFile(file) ==
  IF file.size > MAX_FILE_SIZE
  THEN [valid |-> FALSE, error |-> "File size must be less than 100MB"]
  ELSE IF getFileType(file.type) = None
       THEN [valid |-> FALSE, error |-> "Unsupported file type"]
       ELSE [valid |-> TRUE, error |-> ""]

SafeChars == {LowerCase[i] : i \in 1..26} \cup {UpperCase[i] : i \in 1..26}
             \cup Digits \cup {".", "-"}

\* Faulty variant: the characters outside the class are dropped, not replaced
sanitizeFileNameDropping(fileName) ==
  SelectSeq(fileName, LAMBDA ch : ch \in SafeChars)

\* fileName.replace(/[^a-zA-Z0-9.-]/g, '_')
sanitizeFileName(fileName) ==
  [i \in 1..Len(fileName) |->
     IF fileName[i] \in SafeChars THEN fileName[i] ELSE "_"]

\* FileUploadService.generateFilePath with Date.now() = timestamp; the path
\* `lectures/<lectureId>/<timestamp>_<sanitized>` is kept as its components
generateFilePath(lectureId, fileName, timestamp) ==
  <<"lectures", lectureId, timestamp, sanitizeFileName(fileName)>>

\* lecture_files.file_type CHECK constraint
FileTypeCheck == {"audio", "pdf", "ppt", "pptx", "doc", "docx", "video", "image"}

\* lecture_files.transcript_status CHECK constraint
TranscriptStatusCheck == {"pending", "processing", "completed", "failed"}

\* ------------------------------------------------------------------ inputs
Lectures == {"L1"}

AudioName == <<"l", ".", "w">>
SlidesName == <<"m", " ", "s">>

TestFiles ==
  {[name |-> AudioName, type |-> "audio/webm", size |-> 5 * 1024 * 1024],
   [name |-> SlidesName, type |-> "application/pdf", size |-> 2 * 1024 * 1024],
   [name |-> AudioName, type |-> "video/mp4", size |-> MAX_FILE_SIZE],
   [name |-> SlidesName, type |-> "application/vnd.ms-powerpoint", size |-> 1024],
   [name |-> SlidesName, type |-> "application/msword", size |-> 1024],
   [name |-> SlidesName, type |-> "image/png", size |-> 1024],
   [name |-> AudioName, type |-> "audio/mpeg", size |-> 150 * 1024 * 1024]}

AudioFiles == {f \in TestFiles : getFileType(f.type) = Some("audio")}

\* audio.duration as reported by the media element, in tenths of a second
ReportedDurations == {35}

\* transcripts of single recognition results
Fragments == {<<>>, <<"h", "i">>}

\* the `results` list of one recognition event, read from resultIndex on
ResultEvents ==
  {<<[isFinal |-> f, transcript |-> t]>> : f \in BOOLEAN, t \in Fragments}

RecognitionErrorCodes == {"no-speech"}

\* ------------------------------------------------------------------- state
VARIABLES
  blobs,      \* keys present in the bucket 'lecture-files'
  rows,       \* rows of table lecture_files
  nextId,     \* next generated row id
  now,        \* the latest value Date.now() returned
  started,    \* number of calls started so far
  up,         \* per call: the frame of uploadFile / of a direct transcribe call
  ts,         \* per call: the frame of transcribe and its media objects
  lectures,   \* rows of table lectures, by id
  form        \* state of the upload form (LectureUpload component)

vars == <<blobs, rows, nextId, now, started, up, ts, lectures, form>>

NoFile == [name |-> <<>>, type |-> "", size |-> 0]

NoResult == [success |-> FALSE, error |-> "", filePath |-> None, fileId |-> None]

IdleCall ==
  [pc |-> "idle", op |-> "none", file |-> NoFile, lectureId |-> "",
   isPrimary |-> FALSE, enableTranscription |-> FALSE,
   filePath |-> None, duration |-> None,
   transcript |-> None, transcriptStatus |-> "pending",
   result |-> NoResult,
   calls |-> [put |-> 0, probe |-> 0, transcribe |-> 0, insert |-> 0, remove |-> 0],
   seen |-> [put |-> "none", probe |-> "none", insert |-> "none", remove |-> "none"],
   fileId |-> None, fileRecord |-> None, returned |-> None, log |-> <<>>,
   text |-> <<>>, maxLength |-> 0]

\* the upload form before anything is entered: lectureId, audioFile and
\* pendingFiles are component state; pc is the await handleSubmit is at,
\* index the position of its loop over pendingFiles, frame the upload it
\* awaits, created the lectures the form has created so far
FormIdle ==
  [pc |-> "idle", lectureId |-> None, audioFile |-> None, pendingFiles |-> <<>>,
   index |-> 0, frame |-> 0, created |-> {}]

Pending == [state |-> "pending", text |-> <<>>, error |-> ""]
Resolved(text) == [state |-> "resolved", text |-> text, error |-> ""]
Rejected(error) == [state |-> "rejected", text |-> <<>>, error |-> error]

NoSession ==
  [tpc |-> "none", useExternal |-> FALSE,
   promise |-> Pending, playPromise |-> Pending,
   audio |-> "none", recog |-> "none", timer |-> "none",
   transcript |-> <<>>, events |-> 0,
   localCalls |-> 0, remoteCalls |-> 0, remoteErrors |-> 0,
   checkedAtEntry |-> None, checkedAtCatch |-> None,
   outcome |-> Pending, settles |-> 0]

Init ==
  /\ blobs = {}
  /\ rows = {}
  /\ nextId = 1
  /\ now = 0
  /\ started = 0
  /\ up = [c \in Calls |-> IdleCall]
  /\ ts = [c \in Calls |-> NoSession]
  /\ lectures = [l \in Lectures |-> [has_transcript |-> FALSE]]
  /\ form = FormIdle

\* TranscriptionService.isSupported reads the window object: each call yields
\* one of these, whatever an earlier call yielded
isSupported == BOOLEAN

\* ------------------------------------------------ TranscriptionService flow
RecognitionError(code) == "Speech recognition error: " \o code
MediaLoadError == "Failed to load audio file"

\* transcribeWithExternalService stands in for an external speech-to-text
\* service.  The stand-in of lines 90-100 always resolves; transcribe awaits
\* it inside try (line 107) and inside catch (line 115), so the service is
\* modelled as a collaborator that resolves or rejects.
RemoteError == "External transcription error"

\* the mock text of transcribeWithExternalService, abridged: it quotes the
\* file name and holds a line break followed by indentation
MockTranscript(name) ==
  <<"T", "h", "i", "s", " ">> \o name \o <<".", " ", "\n", " ", " ", "I", "n", ".">>

\* Faulty variant: transcribeAudio starts the recognizer itself, before the
\* audio element has loaded
transcribeEnterStartsAtOnce(useExternal, supported) ==
  IF useExternal \/ ~supported
  THEN [NoSession EXCEPT !.tpc = "remote", !.useExternal = useExternal,
                         !.checkedAtEntry = IF useExternal THEN None ELSE Some(supported),
                         !.remoteCalls = 1]
  ELSE [NoSession EXCEPT !.tpc = "local", !.useExternal = useExternal,
                         !.checkedAtEntry = Some(supported),
                         !.localCalls = 1,
                         !.audio = "loading", !.recog = "started"]

\* Faulty variant: the capability is read but the local path is taken anyway
transcribeEnterIgnoresSupport(useExternal, supported) ==
  IF useExternal
  THEN [NoSession EXCEPT !.tpc = "remote", !.useExternal = useExternal,
                         !.remoteCalls = 1]
  ELSE [NoSession EXCEPT !.tpc = "local", !.useExternal = useExternal,
                         !.checkedAtEntry = Some(supported),
                         !.localCalls = 1,
                         !.audio = "loading", !.recog = "idle"]

\* transcribe, lines 105-110, with transcribeAudio lines 12-44 and
\* playAudioForRecognition lines 50-56 when the local path is taken
transcribeEnter(useExternal, supported) ==
  IF useExternal \/ ~supported
  THEN [NoSession EXCEPT !.tpc = "remote", !.useExternal = useExternal,
                         !.checkedAtEntry = IF useExternal THEN None ELSE Some(supported),
                         !.remoteCalls = 1]
  ELSE [NoSession EXCEPT !.tpc = "local", !.useExternal = useExternal,
                         !.checkedAtEntry = Some(supported),
                         !.localCalls = 1,
                         !.audio = "loading", !.recog = "idle"]

\* uploadFile line 129-153: issue the metadata insert
insertIssued(u) == [u EXCEPT !.pc = "insert", !.calls.insert = @ + 1]

\* Faulty variant: a transcription failure aborts the upload
afterTranscribeAborts(u, outcome) ==
  IF u.op = "upload"
  THEN IF outcome.state = "resolved"
       THEN insertIssued([u EXCEPT !.transcript = Some(formatTranscript(outcome.text)),
                                   !.transcriptStatus = "completed"])
       ELSE [u EXCEPT !.pc = "done", !.transcriptStatus = "failed",
                      !.result = [NoResult EXCEPT !.error = outcome.error]]
  ELSE [u EXCEPT !.pc = "done"]

\* the code after `await TranscriptionService.transcribe` settled:
\* uploadFile lines 117-124, or the return of a direct call
afterTranscribe(u, outcome) ==
  IF u.op = "upload"
  THEN IF outcome.state = "resolved"
       THEN insertIssued([u EXCEPT !.transcript = Some(formatTranscript(outcome.text)),
                                   !.transcriptStatus = "completed"])
       ELSE insertIssued([u EXCEPT !.transcriptStatus = "failed"])
  ELSE [u EXCEPT !.pc = "done"]

\* transcribe settles towards its caller
Settle(c, t, outcome) ==
  /\ ts' = [ts EXCEPT ![c] = [t EXCEPT !.tpc = "settled", !.outcome = outcome,
                                       !.settles = @ + 1]]
  /\ up' = [up EXCEPT ![c] = afterTranscribe(up[c], outcome)]

\* Faulty variant: the catch block rethrows without trying the external service
CaughtRethrows(c, t, error) ==
  \E supported \in isSupported :
    Settle(c, [t EXCEPT !.checkedAtCatch = Some(supported)], Rejected(error))

\* transcribe lines 111-118: the catch block
Caught(c, t, error) ==
  \E supported \in isSupported :
    IF supported
    THEN /\ ts' = [ts EXCEPT ![c] = [t EXCEPT !.tpc = "fallback",
                                             !.checkedAtCatch = Some(TRUE),
                                             !.remoteCalls = @ + 1]]
         /\ UNCHANGED up
    ELSE Settle(c, [t EXCEPT !.checkedAtCatch = Some(FALSE)], Rejected(error))

\* Faulty variant: the kind of the file is not consulted before transcribing
afterProbeAnyKind(c, u) ==
  IF u.enableTranscription
  THEN /\ up' = [up EXCEPT ![c] = [u EXCEPT !.pc = "transcribing",
                                           !.transcriptStatus = "processing",
                                           !.calls.transcribe = @ + 1]]
       /\ \E supported \in isSupported :
            ts' = [ts EXCEPT ![c] = transcribeEnter(FALSE, supported)]
  ELSE /\ up' = [up EXCEPT ![c] = insertIssued(u)]
       /\ UNCHANGED ts

\* uploadFile lines 109-127: transcription decision after the probe
afterProbe(c, u) ==
  IF u.enableTranscription /\ getFileType(u.file.type) = Some("audio")
  THEN /\ up' = [up EXCEPT ![c] = [u EXCEPT !.pc = "transcribing",
                                           !.transcriptStatus = "processing",
                                           !.calls.transcribe = @ + 1]]
       /\ \E supported \in isSupported :
            ts' = [ts EXCEPT ![c] = transcribeEnter(FALSE, supported)]
  ELSE /\ up' = [up EXCEPT ![c] = insertIssued(u)]
       /\ UNCHANGED ts

\* ------------------------------------------------------- uploadFile actions
NoneInFlight == \A d \in Calls : up[d].pc \in {"idle", "done"}

\* a call runs in the first frame that holds no call in flight
FreshCall(c) ==
  /\ up[c].pc \in {"idle", "done"}
  /\ \A d \in 1..(c - 1) : up[d].pc \notin {"idle", "done"}

Failure(message) == [NoResult EXCEPT !.error = message]

\* Faulty variant: the verdict of validateFile is not consulted
UploadFileUnvalidated(c, file, lectureId, isPrimary, enableTranscription, timestamp) ==
  /\ FreshCall(c)
  /\ timestamp >= now
  /\ now' = timestamp
  /\ up' = [up EXCEPT ![c] =
              [IdleCall EXCEPT !.op = "upload", !.file = file,
                               !.lectureId = lectureId, !.isPrimary = isPrimary,
                               !.enableTranscription = enableTranscription,
                               !.pc = "put",
                               !.filePath = Some(generateFilePath(lectureId, file.name, timestamp)),
                               !.calls.put = @ + 1]]
  /\ ts' = [ts EXCEPT ![c] = NoSession]
  /\ started' = started + 1
  /\ UNCHANGED <<blobs, rows, nextId, lectures>>

\* uploadFile lines 67-83: validate, generate the key, issue the storage upload
UploadFile(c, file, lectureId, isPrimary, enableTranscription, timestamp) ==
  /\ FreshCall(c)
  /\ timestamp >= now
  /\ now' = timestamp
  /\ LET u == [IdleCall EXCEPT !.op = "upload", !.file = file,
                               !.lectureId = lectureId, !.isPrimary = isPrimary,
                               !.enableTranscription = enableTranscription]
         validation == validateFile(file)
     IN  up' = [up EXCEPT ![c] =
                  IF ~validation.valid
                  THEN [u EXCEPT !.pc = "done", !.result = Failure(validation.error)]
                  ELSE [u EXCEPT !.pc = "put",
                                 !.filePath = Some(generateFilePath(lectureId, file.name, timestamp)),
                                 !.calls.put = @ + 1]]
  /\ ts' = [ts EXCEPT ![c] = NoSession]
  /\ started' = started + 1
  /\ UNCHANGED <<blobs, rows, nextId, lectures>>

\* Faulty variant: the error of the storage upload is not checked
PutRespondsUnchecked(c, outcome) ==
  /\ up[c].pc = "put"
  /\ LET key == up[c].filePath[1]
         u == [up[c] EXCEPT !.seen.put = outcome]
     IN  CASE outcome = "ok" ->
                /\ key \notin blobs
                /\ blobs' = blobs \cup {key}
                /\ IF getFileType(u.file.type) \in {Some("audio"), Some("video")}
                   THEN /\ up' = [up EXCEPT ![c] = [u EXCEPT !.pc = "probe",
                                                            !.calls.probe = @ + 1]]
                        /\ UNCHANGED ts
                   ELSE afterProbe(c, u)
           [] outcome = "error" ->
                /\ UNCHANGED blobs
                /\ afterProbe(c, u)
           [] outcome = "throw" ->
                /\ up' = [up EXCEPT ![c] = [u EXCEPT !.pc = "done",
                                                     !.result = Failure("storage exception")]]
                /\ UNCHANGED <<blobs, ts>>
  /\ UNCHANGED <<rows, nextId, now, started, lectures, form>>

\* Faulty variant: the storage upload replaces an object that exists (upsert: true)
PutRespondsUpsert(c, outcome) ==
  /\ up[c].pc = "put"
  /\ LET key == up[c].filePath[1]
         u == [up[c] EXCEPT !.seen.put = outcome]
     IN  CASE outcome = "ok" ->
                /\ blobs' = blobs \cup {key}
                /\ IF getFileType(u.file.type) \in {Some("audio"), Some("video")}
                   THEN /\ up' = [up EXCEPT ![c] = [u EXCEPT !.pc = "probe",
                                                            !.calls.probe = @ + 1]]
                        /\ UNCHANGED ts
                   ELSE afterProbe(c, u)
           [] outcome = "error" ->
                /\ up' = [up EXCEPT ![c] = [u EXCEPT !.pc = "done",
                                                     !.result = Failure("storage error")]]
                /\ UNCHANGED <<blobs, ts>>
           [] outcome = "throw" ->
                /\ up' = [up EXCEPT ![c] = [u EXCEPT !.pc = "done",
                                                     !.result = Failure("storage exception")]]
                /\ UNCHANGED <<blobs, ts>>
  /\ UNCHANGED <<rows, nextId, now, started, lectures, form>>

\* uploadFile lines 78-107: the storage upload responds (upsert: false)
PutResponds(c, outcome) ==
  /\ up[c].pc = "put"
  /\ LET key == up[c].filePath[1]
         u == [up[c] EXCEPT !.seen.put = outcome]
     IN  CASE outcome = "ok" ->
                /\ key \notin blobs
                /\ blobs' = blobs \cup {key}
                /\ IF getFileType(u.file.type) \in {Some("audio"), Some("video")}
                   THEN /\ up' = [up EXCEPT ![c] = [u EXCEPT !.pc = "probe",
                                                            !.calls.probe = @ + 1]]
                        /\ UNCHANGED ts
                   ELSE afterProbe(c, u)
           [] outcome = "error" ->
                /\ up' = [up EXCEPT ![c] = [u EXCEPT !.pc = "done",
                                                     !.result = Failure("storage error")]]
                /\ UNCHANGED <<blobs, ts>>
           [] outcome = "throw" ->
                /\ up' = [up EXCEPT ![c] = [u EXCEPT !.pc = "done",
                                                     !.result = Failure("storage exception")]]
                /\ UNCHANGED <<blobs, ts>>
  /\ UNCHANGED <<rows, nextId, now, started, lectures, form>>

\* getMediaDuration lines 184-187 and uploadFile lines 102-103
ProbeLoaded(c, reported) ==
  /\ up[c].pc = "probe"
  /\ afterProbe(c, [up[c] EXCEPT !.seen.probe = "loadedmetadata",
                                 !.duration = Some(reported \div 10)])
  /\ UNCHANGED <<blobs, rows, nextId, now, started, lectures, form>>

\* Faulty variant: the rejection of getMediaDuration reaches the outer catch
ProbeErrorAborts(c) ==
  /\ up[c].pc = "probe"
  /\ up' = [up EXCEPT ![c] = [@ EXCEPT !.seen.probe = "error", !.pc = "done",
                                       !.result = Failure("Failed to load media file")]]
  /\ UNCHANGED <<blobs, rows, nextId, now, started, ts, lectures, form>>

\* getMediaDuration lines 189-192 and uploadFile lines 104-106
ProbeError(c) ==
  /\ up[c].pc = "probe"
  /\ afterProbe(c, [up[c] EXCEPT !.seen.probe = "error"])
  /\ UNCHANGED <<blobs, rows, nextId, now, started, lectures, form>>

\* the row uploadFile inserts, lines 140-151
NewRow(u, id) ==
  [id |-> id, lecture_id |-> u.lectureId, file_name |-> u.file.name,
   file_type |-> IF getFileType(u.file.type) = None THEN "unknown"
                 ELSE getFileType(u.file.type)[1],
   file_size |-> u.file.size, file_path |-> u.filePath[1],
   mime_type |-> u.file.type, duration |-> u.duration,
   is_primary |-> u.isPrimary, transcript |-> u.transcript,
   transcript_status |-> u.transcriptStatus]

\* the CHECK constraints of lecture_files
RowAccepted(row) ==
  /\ row.file_type \in FileTypeCheck
  /\ row.transcript_status \in TranscriptStatusCheck

\* Faulty variant: a refused insert is issued a second time before the clean-up
InsertRespondsRetries(c, outcome) ==
  /\ up[c].pc = "insert"
  /\ LET u == [up[c] EXCEPT !.seen.insert = outcome]
         row == NewRow(u, nextId)
     IN  CASE outcome = "ok" ->
                /\ RowAccepted(row)
                /\ rows' = rows \cup {row}
                /\ nextId' = nextId + 1
                /\ up' = [up EXCEPT ![c] =
                            [u EXCEPT !.pc = "done",
                                      !.result = [success |-> TRUE, error |-> "",
                                                  filePath |-> u.filePath,
                                                  fileId |-> Some(row.id)]]]
           [] outcome = "error" ->
                /\ up' = [up EXCEPT ![c] =
                            IF u.calls.insert < 2 THEN insertIssued(u)
                            ELSE [u EXCEPT !.pc = "remove", !.calls.remove = @ + 1]]
                /\ UNCHANGED <<rows, nextId>>
           [] outcome = "throw" ->
                /\ up' = [up EXCEPT ![c] = [u EXCEPT !.pc = "done",
                                                     !.result = Failure("database exception")]]
                /\ UNCHANGED <<rows, nextId>>
  /\ UNCHANGED <<blobs, now, started, ts, lectures, form>>

\* uploadFile lines 138-168: the metadata insert responds
InsertResponds(c, outcome) ==
  /\ up[c].pc = "insert"
  /\ LET u == [up[c] EXCEPT !.seen.insert = outcome]
         row == NewRow(u, nextId)
     IN  CASE outcome = "ok" ->
                /\ RowAccepted(row)
                /\ rows' = rows \cup {row}
                /\ nextId' = nextId + 1
                /\ up' = [up EXCEPT ![c] =
                            [u EXCEPT !.pc = "done",
                                      !.result = [success |-> TRUE, error |-> "",
                                                  filePath |-> u.filePath,
                                                  fileId |-> Some(row.id)]]]
           [] outcome = "error" ->
                /\ up' = [up EXCEPT ![c] = [u EXCEPT !.pc = "remove",
                                                     !.calls.remove = @ + 1]]
                /\ UNCHANGED <<rows, nextId>>
           [] outcome = "throw" ->
                /\ up' = [up EXCEPT ![c] = [u EXCEPT !.pc = "done",
                                                     !.result = Failure("database exception")]]
                /\ UNCHANGED <<rows, nextId>>
  /\ UNCHANGED <<blobs, now, started, ts, lectures, form>>

\* Faulty variant: the clean-up names the object by the raw file name
cleanupPathsRawName(u) == {<<"lectures", u.lectureId, u.filePath[1][3], u.file.name>>}

\* the paths handed to storage remove, uploadFile line 159
cleanupPaths(u) == {u.filePath[1]}

\* uploadFile lines 159-160 and 170-175: the compensating delete responds
RemoveResponds(c, outcome) ==
  /\ up[c].pc = "remove"
  /\ LET u == [up[c] EXCEPT !.seen.remove = outcome, !.pc = "done"]
     IN  CASE outcome = "ok" ->
                /\ blobs' = blobs \ cleanupPaths(u)
                /\ up' = [up EXCEPT ![c] = [u EXCEPT !.result = Failure("database error")]]
           [] outcome = "error" ->
                /\ UNCHANGED blobs
                /\ up' = [up EXCEPT ![c] = [u EXCEPT !.result = Failure("database error")]]
           [] outcome = "throw" ->
                /\ UNCHANGED blobs
                /\ up' = [up EXCEPT ![c] = [u EXCEPT !.result = Failure("remove exception")]]
  /\ UNCHANGED <<rows, nextId, now, started, ts, lectures, form>>

\* --------------------------------------------- TranscriptionService actions
\* a direct call of TranscriptionService.transcribe(audioFile, useExternal)
Transcribe(c, file, useExternal) ==
  /\ FreshCall(c)
  /\ up' = [up EXCEPT ![c] = [IdleCall EXCEPT !.op = "transcribe", !.file = file,
                                              !.pc = "transcribing"]]
  /\ \E supported \in isSupported :
       ts' = [ts EXCEPT ![c] = transcribeEnter(useExternal, supported)]
  /\ started' = started + 1
  /\ UNCHANGED <<blobs, rows, nextId, now, lectures, form>>

\* recognition.onresult, transcribeAudio lines 27-33
RECURSIVE onresult(_, _)
onresult(transcript, results) ==
  IF results = <<>> THEN transcript
  ELSE onresult(IF Head(results).isFinal
                THEN transcript \o Head(results).transcript \o <<" ">>
                ELSE transcript,
                Tail(results))

\* The media element and the recognizer of a session are followed while the
\* promise of transcribeAudio is pending: once it settled, their events reach
\* only objects that nothing reads any more.
Listening(c) == ts[c].tpc = "local" /\ ts[c].promise.state = "pending"

\* audio.onloadeddata, playAudioForRecognition lines 58-61
AudioLoadedData(c) ==
  /\ Listening(c)
  /\ ts[c].audio = "loading"
  /\ ts' = [ts EXCEPT ![c].recog = "started", ![c].audio = "playing"]
  /\ UNCHANGED <<blobs, rows, nextId, now, started, up, lectures, form>>

\* audio.onerror, playAudioForRecognition lines 71-74: rejects the promise of
\* playAudioForRecognition, which transcribeAudio (line 44) does not observe
AudioError(c) ==
  /\ Listening(c)
  /\ ts[c].audio \in {"loading", "playing"}
  /\ ts' = [ts EXCEPT ![c].audio = "error", ![c].playPromise = Rejected(MediaLoadError)]
  /\ UNCHANGED <<blobs, rows, nextId, now, started, up, lectures, form>>

\* audio.onended, playAudioForRecognition lines 63-64: arms the 1000 ms timer
AudioEnded(c) ==
  /\ Listening(c)
  /\ ts[c].audio = "playing"
  /\ ts' = [ts EXCEPT ![c].audio = "ended", ![c].timer = "armed"]
  /\ UNCHANGED <<blobs, rows, nextId, now, started, up, lectures, form>>

\* the timer callback, playAudioForRecognition lines 65-67
SettleTimer(c) ==
  /\ Listening(c)
  /\ ts[c].timer = "armed"
  /\ ts' = [ts EXCEPT ![c].timer = "fired",
                      ![c].recog = IF @ = "started" THEN "stopping" ELSE @,
                      ![c].playPromise = IF @.state = "pending" THEN Resolved(<<>>) ELSE @]
  /\ UNCHANGED <<blobs, rows, nextId, now, started, up, lectures, form>>

\* the recognizer delivers a result event
RecogResult(c, results) ==
  /\ Listening(c)
  /\ ts[c].recog \in {"started", "stopping"}
  /\ ts[c].events < MaxResultEvents
  /\ ts' = [ts EXCEPT ![c].transcript = onresult(@, results),
                      ![c].events = @ + 1]
  /\ UNCHANGED <<blobs, rows, nextId, now, started, up, lectures, form>>

\* recognition.onend, transcribeAudio lines 35-37; the recognizer ends after
\* stop() or on its own
RecogEnd(c) ==
  /\ Listening(c)
  /\ ts[c].recog \in {"started", "stopping"}
  /\ LET text == Trim(ts[c].transcript)
     IN  Settle(c, [ts[c] EXCEPT !.recog = "ended", !.promise = Resolved(text)],
                Resolved(text))
  /\ UNCHANGED <<blobs, rows, nextId, now, started, lectures, form>>

\* recognition.onerror, transcribeAudio lines 39-41, then transcribe's catch
RecogError(c, code) ==
  /\ Listening(c)
  /\ ts[c].recog \in {"started", "stopping"}
  /\ LET error == RecognitionError(code)
     IN  Caught(c, [ts[c] EXCEPT !.recog = "errored", !.promise = Rejected(error)], error)
  /\ UNCHANGED <<blobs, rows, nextId, now, started, lectures, form>>

\* Faulty variant: a failed fallback surfaces the error of the local attempt
RemoteRespondsFirstCause(c, outcome) ==
  /\ ts[c].tpc \in {"remote", "fallback"}
  /\ CASE outcome = "resolve" ->
            Settle(c, ts[c], Resolved(MockTranscript(up[c].file.name)))
       [] outcome = "reject" ->
            LET t == [ts[c] EXCEPT !.remoteErrors = @ + 1]
            IN  IF ts[c].tpc = "remote"
                THEN Caught(c, t, RemoteError)
                ELSE Settle(c, t, Rejected(IF t.promise.state = "rejected"
                                              THEN t.promise.error ELSE RemoteError))
  /\ UNCHANGED <<blobs, rows, nextId, now, started, lectures, form>>

\* transcribeWithExternalService settles: transcribe line 107 (inside the try)
\* or line 115 (inside the catch)
RemoteResponds(c, outcome) ==
  /\ ts[c].tpc \in {"remote", "fallback"}
  /\ CASE outcome = "resolve" ->
            Settle(c, ts[c], Resolved(MockTranscript(up[c].file.name)))
       [] outcome = "reject" ->
            LET t == [ts[c] EXCEPT !.remoteErrors = @ + 1]
            IN  IF ts[c].tpc = "remote"
                THEN Caught(c, t, RemoteError)
                ELSE Settle(c, t, Rejected(RemoteError))
  /\ UNCHANGED <<blobs, rows, nextId, now, started, lectures, form>>

\* ----------------------------------------------------------- specification
Next ==
  \/ \E c \in Calls, file \in TestFiles, lectureId \in Lectures,
        isPrimary \in BOOLEAN, enableTranscription \in BOOLEAN,
        timestamp \in 0..MaxTime :
       /\ started < MaxStarted /\ NoneInFlight
       /\ UploadFile(c, file, lectureId, isPrimary, enableTranscription, timestamp)
       /\ UNCHANGED form
  \/ \E c \in Calls, file \in AudioFiles, useExternal \in BOOLEAN :
       started < MaxStarted /\ NoneInFlight /\ Transcribe(c, file, useExternal)
  \/ \E c \in Calls, outcome \in {"ok", "error", "throw"} : PutResponds(c, outcome)
  \/ \E c \in Calls, reported \in ReportedDurations : ProbeLoaded(c, reported)
  \/ \E c \in Calls : ProbeError(c)
  \/ \E c \in Calls, outcome \in {"ok", "error", "throw"} : InsertResponds(c, outcome)
  \/ \E c \in Calls, outcome \in {"ok", "error", "throw"} : RemoveResponds(c, outcome)
  \/ \E c \in Calls : AudioLoadedData(c)
  \/ \E c \in Calls : AudioError(c)
  \/ \E c \in Calls : AudioEnded(c)
  \/ \E c \in Calls : SettleTimer(c)
  \/ \E c \in Calls, results \in ResultEvents : RecogResult(c, results)
  \/ \E c \in Calls : RecogEnd(c)
  \/ \E c \in Calls, code \in RecognitionErrorCodes : RecogError(c, code)
  \/ \E c \in Calls, outcome \in {"resolve", "reject"} : RemoteResponds(c, outcome)

Spec == Init /\ [][Next]_vars

\* every collaborator eventually responds: storage and database calls
\* return, the duration probe and the external service settle, the media
\* element emits loadeddata or error, the timer fires, and a started
\* recognizer emits end or error
Fairness ==
  \A c \in Calls :
    /\ WF_vars(\E outcome \in {"ok", "error", "throw"} : PutResponds(c, outcome))
    /\ WF_vars(ProbeError(c) \/ \E reported \in ReportedDurations : ProbeLoaded(c, reported))
    /\ WF_vars(\E outcome \in {"ok", "error", "throw"} : InsertResponds(c, outcome))
    /\ WF_vars(\E outcome \in {"ok", "error", "throw"} : RemoveResponds(c, outcome))
    /\ WF_vars(\E outcome \in {"resolve", "reject"} : RemoteResponds(c, outcome))
    /\ WF_vars(AudioLoadedData(c) \/ AudioError(c))
    /\ WF_vars(SettleTimer(c))
    /\ WF_vars(RecogEnd(c) \/ \E code \in RecognitionErrorCodes : RecogError(c, code))

SpecFair == Spec /\ Fairness

\* ------------------------------------------------------- deleteFile actions
\* the call awaited `call` and saw `outcome`
Logged(u, call, outcome) ==
  [u EXCEPT !.log = Append(@, [call |-> call, outcome |-> outcome])]

\* deleteFile lines 231-238: issue the select of file_path by id
DeleteFile(c, fileId) ==
  /\ FreshCall(c)
  /\ up' = [up EXCEPT ![c] = [IdleCall EXCEPT !.op = "delete", !.pc = "fetch",
                                              !.fileId = Some(fileId)]]
  /\ ts' = [ts EXCEPT ![c] = NoSession]
  /\ started' = started + 1
  /\ UNCHANGED <<blobs, rows, nextId, now, lectures, form>>

\* deleteFile lines 234-247: the select responds; .single() yields the row
\* of that id or an error when there is none
FetchResponds(c, outcome) ==
  /\ up[c].pc = "fetch"
  /\ LET u == Logged(up[c], "fetch", outcome)
         found == {r \in rows : r.id = up[c].fileId[1]}
     IN  CASE outcome = "ok" ->
                /\ found # {}
                /\ up' = [up EXCEPT ![c] =
                            [u EXCEPT !.pc = "storageRemove",
                                      !.fileRecord =
                                        Some([file_path |-> (CHOOSE r \in found : TRUE).file_path])]]
           [] outcome \in {"error", "throw"} ->
                up' = [up EXCEPT ![c] = [u EXCEPT !.pc = "done", !.returned = Some(FALSE)]]
  /\ UNCHANGED <<blobs, rows, nextId, now, started, ts, lectures, form>>

\* deleteFile lines 245-258: storage remove responds; an error is only logged
StorageRemoveResponds(c, outcome) ==
  /\ up[c].pc = "storageRemove"
  /\ LET u == Logged(up[c], "storageRemove", outcome)
     IN  CASE outcome = "ok" ->
                /\ blobs' = blobs \ {u.fileRecord[1].file_path}
                /\ up' = [up EXCEPT ![c] = [u EXCEPT !.pc = "rowDelete"]]
           [] outcome = "error" ->
                /\ UNCHANGED blobs
                /\ up' = [up EXCEPT ![c] = [u EXCEPT !.pc = "rowDelete"]]
           [] outcome = "throw" ->
                /\ UNCHANGED blobs
                /\ up' = [up EXCEPT ![c] = [u EXCEPT !.pc = "done", !.returned = Some(FALSE)]]
  /\ UNCHANGED <<rows, nextId, now, started, ts, lectures, form>>

\* deleteFile lines 254-267: the delete of the row responds
RowDeleteResponds(c, outcome) ==
  /\ up[c].pc = "rowDelete"
  /\ LET u == [Logged(up[c], "rowDelete", outcome) EXCEPT !.pc = "done"]
     IN  CASE outcome = "ok" ->
                /\ rows' = {r \in rows : r.id # u.fileId[1]}
                /\ up' = [up EXCEPT ![c] = [u EXCEPT !.returned = Some(TRUE)]]
           [] outcome \in {"error", "throw"} ->
                /\ UNCHANGED rows
                /\ up' = [up EXCEPT ![c] = [u EXCEPT !.returned = Some(FALSE)]]
  /\ UNCHANGED <<blobs, nextId, now, started, ts, lectures, form>>

\* ------------------------------------------------------- database trigger
\* update_lecture_transcript_status_trigger: AFTER UPDATE ON lecture_files
\* FOR EACH ROW.  `old` and `new` are the table before and after one UPDATE
\* statement; OLD and NEW are the two versions of a row of one id.  An INSERT
\* or a DELETE does not fire it.
update_lecture_transcript_status(old, new, table) ==
  LET updated == {p \in old \X new : p[1].id = p[2].id}
      completed(l) == \E p \in updated :
                        /\ p[2].lecture_id = l
                        /\ p[2].transcript_status = "completed"
                        /\ p[1].transcript_status # "completed"
      failed(l) == \E p \in updated :
                     /\ p[2].lecture_id = l
                     /\ p[2].transcript_status = "failed"
                     /\ p[1].transcript_status # "failed"
  IN  [l \in DOMAIN table |->
         IF completed(l) THEN [table[l] EXCEPT !.has_transcript = TRUE]
         ELSE IF failed(l) THEN [table[l] EXCEPT !.has_transcript = FALSE]
         ELSE table[l]]

\* --------------------------------------- setPrimaryFile (upload form) actions
\* setPrimaryFile lines 265-271: issue the update that clears is_primary on
\* the rows of the form's lecture
SetPrimaryFile(c, lectureId, fileId) ==
  /\ FreshCall(c)
  /\ up' = [up EXCEPT ![c] = [IdleCall EXCEPT !.op = "setPrimary", !.pc = "clear",
                                              !.lectureId = lectureId,
                                              !.fileId = Some(fileId)]]
  /\ ts' = [ts EXCEPT ![c] = NoSession]
  /\ started' = started + 1
  /\ UNCHANGED <<blobs, rows, nextId, now, lectures, form>>

\* setPrimaryFile lines 268-277: the first update responds; its error is not
\* read, and the second update is issued
ClearResponds(c, outcome) ==
  /\ up[c].pc = "clear"
  /\ LET u == Logged(up[c], "clear", outcome)
     IN  CASE outcome = "ok" ->
                /\ rows' = {[r EXCEPT !.is_primary =
                                        IF r.lecture_id = u.lectureId THEN FALSE ELSE @] :
                              r \in rows}
                /\ up' = [up EXCEPT ![c] = [u EXCEPT !.pc = "set"]]
           [] outcome = "error" ->
                /\ UNCHANGED rows
                /\ up' = [up EXCEPT ![c] = [u EXCEPT !.pc = "set"]]
           [] outcome = "throw" ->
                /\ UNCHANGED rows
                /\ up' = [up EXCEPT ![c] = [u EXCEPT !.pc = "done"]]
  /\ UNCHANGED <<blobs, nextId, now, started, ts>>
  /\ lectures' = update_lecture_transcript_status(rows, rows', lectures)
  /\ UNCHANGED form

\* Faulty variant: the second update also clears the flag of the siblings
SetRespondsExclusive(c, outcome) ==
  /\ up[c].pc = "set"
  /\ LET u == [Logged(up[c], "set", outcome) EXCEPT !.pc = "done"]
     IN  /\ up' = [up EXCEPT ![c] = u]
         /\ IF outcome = "ok"
            THEN rows' = {[r EXCEPT !.is_primary = (r.id = u.fileId[1])] : r \in rows}
            ELSE UNCHANGED rows
  /\ UNCHANGED <<blobs, nextId, now, started, ts>>
  /\ lectures' = update_lecture_transcript_status(rows, rows', lectures)
  /\ UNCHANGED form

\* setPrimaryFile lines 274-297: the second update responds
SetResponds(c, outcome) ==
  /\ up[c].pc = "set"
  /\ LET u == [Logged(up[c], "set", outcome) EXCEPT !.pc = "done"]
     IN  /\ up' = [up EXCEPT ![c] = u]
         /\ IF outcome = "ok"
            THEN rows' = {[r EXCEPT !.is_primary =
                                      IF r.id = u.fileId[1] THEN TRUE ELSE @] :
                            r \in rows}
            ELSE UNCHANGED rows
  /\ UNCHANGED <<blobs, nextId, now, started, ts>>
  /\ lectures' = update_lecture_transcript_status(rows, rows', lectures)
  /\ UNCHANGED form

\* ------------------------------------------- the files of a lecture over time
NotesName == <<"n">>

\* documents need neither the duration probe nor transcription
StoreFiles ==
  {[name |-> SlidesName, type |-> "application/pdf", size |-> 2 * 1024 * 1024],
   [name |-> NotesName, type |-> "application/pdf", size |-> 1024]}

\* ids the table has handed out so far
FileIds == 1..(nextId - 1)

\* the calls in flight, if any, are all set-primary calls
OnlySetPrimaryInFlight ==
  \A d \in Calls : up[d].pc \in {"idle", "done"} \/ up[d].op = "setPrimary"

\* Uploads and deletes run one at a time; set-primary calls (two clicks, two
\* open forms) overlap each other.
NextFiles ==
  \/ \E c \in Calls, file \in StoreFiles, lectureId \in Lectures,
        isPrimary \in BOOLEAN, timestamp \in 0..MaxTime :
       /\ started < MaxFileOps /\ NoneInFlight
       /\ UploadFile(c, file, lectureId, isPrimary, FALSE, timestamp)
       /\ UNCHANGED form
  \/ \E c \in Calls, outcome \in {"ok", "error", "throw"} : PutResponds(c, outcome)
  \/ \E c \in Calls, outcome \in {"ok", "error", "throw"} : InsertResponds(c, outcome)
  \/ \E c \in Calls, outcome \in {"ok", "error", "throw"} : RemoveResponds(c, outcome)
  \/ \E c \in Calls, fileId \in FileIds :
       started < MaxFileOps /\ NoneInFlight /\ DeleteFile(c, fileId)
  \/ \E c \in Calls, outcome \in {"ok", "error", "throw"} : FetchResponds(c, outcome)
  \/ \E c \in Calls, outcome \in {"ok", "error", "throw"} : StorageRemoveResponds(c, outcome)
  \/ \E c \in Calls, outcome \in {"ok", "error", "throw"} : RowDeleteResponds(c, outcome)
  \/ \E c \in Calls, lectureId \in Lectures, fileId \in FileIds :
       /\ started < MaxFileOps /\ OnlySetPrimaryInFlight
       /\ SetPrimaryFile(c, lectureId, fileId)
  \/ \E c \in Calls, outcome \in {"ok", "error", "throw"} : ClearResponds(c, outcome)
  \/ \E c \in Calls, outcome \in {"ok", "error", "throw"} : SetResponds(c, outcome)

SpecFiles == Init /\ [][NextFiles]_vars

\* one form, one click at a time: files are stored, and setPrimaryFile runs
\* with nothing else in flight
NextSetPrimary ==
  \/ \E c \in Calls, file \in StoreFiles, lectureId \in Lectures,
        isPrimary \in BOOLEAN, timestamp \in 0..MaxTime :
       /\ started < MaxFileOps /\ NoneInFlight
       /\ UploadFile(c, file, lectureId, isPrimary, FALSE, timestamp)
       /\ UNCHANGED form
  \/ \E c \in Calls, outcome \in {"ok", "error", "throw"} : PutResponds(c, outcome)
  \/ \E c \in Calls, outcome \in {"ok", "error", "throw"} : InsertResponds(c, outcome)
  \/ \E c \in Calls, outcome \in {"ok", "error", "throw"} : RemoveResponds(c, outcome)
  \/ \E c \in Calls, lectureId \in Lectures, fileId \in FileIds :
       /\ started < MaxFileOps /\ NoneInFlight
       /\ SetPrimaryFile(c, lectureId, fileId)
  \/ \E c \in Calls, outcome \in {"ok", "error", "throw"} : ClearResponds(c, outcome)
  \/ \E c \in Calls, outcome \in {"ok", "error", "throw"} : SetResponds(c, outcome)

SpecSetPrimary == Init /\ [][NextSetPrimary]_vars

\* -------------------------------------------------- getLectureFiles actions
\* getFileUrl: the public URL of a storage path in bucket 'lecture-files'
getFileUrl(filePath) == <<"public", "lecture-files", filePath>>

\* order('is_primary', descending) then order('created_at', ascending); ids
\* are handed out in the order of insertion
Before(r, q) ==
  \/ r.is_primary /\ ~q.is_primary
  \/ r.is_primary = q.is_primary /\ r.id <= q.id

RECURSIVE Ordered(_)
Ordered(table) ==
  IF table = {} THEN <<>>
  ELSE LET first == CHOOSE r \in table : \A q \in table : Before(r, q)
       IN  <<first>> \o Ordered(table \ {first})

\* getLectureFiles lines 270-277: issue the select; the caller is a page of
\* its own, so the call takes any frame that holds no call in flight
GetLectureFiles(c, lectureId) ==
  /\ up[c].pc \in {"idle", "done"}
  /\ up' = [up EXCEPT ![c] = [IdleCall EXCEPT !.op = "list", !.pc = "select",
                                              !.lectureId = lectureId]]
  /\ ts' = [ts EXCEPT ![c] = NoSession]
  /\ started' = started + 1
  /\ UNCHANGED <<blobs, rows, nextId, now, lectures, form>>

\* getLectureFiles lines 272-293: the select responds; every record gets
\* its public URL, and a failure yields the empty list
SelectResponds(c, outcome) ==
  /\ up[c].pc = "select"
  /\ LET u == [Logged(up[c], "select", outcome) EXCEPT !.pc = "done"]
         data == Ordered({r \in rows : r.lecture_id = u.lectureId})
         filesWithUrls == [i \in 1..Len(data) |->
                             data[i] @@ [url |-> getFileUrl(data[i].file_path)]]
     IN  up' = [up EXCEPT ![c] =
                  [u EXCEPT !.returned = IF outcome = "ok" THEN Some(filesWithUrls)
                                         ELSE Some(<<>>)]]
  /\ UNCHANGED <<blobs, rows, nextId, now, started, ts, lectures, form>>

\* one file of every kind is uploaded without transcription, and the files
\* of the lecture are listed
NextRoundTrip ==
  \/ \E c \in Calls, file \in TestFiles, lectureId \in Lectures,
        isPrimary \in BOOLEAN, timestamp \in 0..MaxTime :
       /\ started < MaxTripOps /\ NoneInFlight
       /\ UploadFile(c, file, lectureId, isPrimary, FALSE, timestamp)
       /\ UNCHANGED form
  \/ \E c \in Calls, outcome \in {"ok", "error", "throw"} : PutResponds(c, outcome)
  \/ \E c \in Calls, reported \in ReportedDurations : ProbeLoaded(c, reported)
  \/ \E c \in Calls : ProbeError(c)
  \/ \E c \in Calls, outcome \in {"ok", "error", "throw"} : InsertResponds(c, outcome)
  \/ \E c \in Calls, outcome \in {"ok", "error", "throw"} : RemoveResponds(c, outcome)
  \/ \E c \in Calls, lectureId \in Lectures :
       started < MaxTripOps /\ NoneInFlight /\ GetLectureFiles(c, lectureId)
  \/ \E c \in Calls, outcome \in {"ok", "error", "throw"} : SelectResponds(c, outcome)

SpecRoundTrip == Init /\ [][NextRoundTrip]_vars

\* ------------------------------------------- validateFile called on its own
\* File.size values around the limit
ValidateSizes ==
  {0, 1, MAX_FILE_SIZE - 1, MAX_FILE_SIZE, MAX_FILE_SIZE + 1, 150 * 1024 * 1024}

\* File.type values: every listed MIME type, two unlisted ones and the empty
\* type the browser reports for an unknown file
MimeTypes ==
  UNION {ALLOWED_TYPES[KindOrder[i]] : i \in 1..Len(KindOrder)}
    \cup {"image/png", "text/plain", ""}

ValidateInputs == [name : {SlidesName}, type : MimeTypes, size : ValidateSizes]

\* a caller holds a File and is about to call FileUploadService.validateFile
InitValidate ==
  /\ blobs = {}
  /\ rows = {}
  /\ nextId = 1
  /\ now = 0
  /\ started = 0
  /\ \E file \in ValidateInputs :
       up = [c \in Calls |->
               IF c = 1 THEN [IdleCall EXCEPT !.op = "validate", !.pc = "validate",
                                              !.file = file]
               ELSE IdleCall]
  /\ ts = [c \in Calls |-> NoSession]
  /\ lectures = [l \in Lectures |-> [has_transcript |-> FALSE]]
  /\ form = FormIdle

\* FileUploadService.validateFile(file) returns its verdict
ValidateFile(c) ==
  /\ up[c].pc = "validate"
  /\ LET validation == validateFile(up[c].file)
     IN  up' = [up EXCEPT ![c] = [@ EXCEPT !.pc = "done",
                                           !.result.success = validation.valid,
                                           !.result.error = validation.error]]
  /\ UNCHANGED <<blobs, rows, nextId, now, started, ts, lectures, form>>

NextValidate == \E c \in Calls : ValidateFile(c)

SpecValidate == InitValidate /\ [][NextValidate]_vars

\* ---------------------------------------- formatTranscript called on its own
\* texts of at most n characters over an alphabet
TextsUpTo(alphabet, n) == UNION {[1..k -> alphabet] : k \in 0..n}

\* letters of both cases, both kinds of whitespace, the terminal marks
FormatAlphabet == {"a", "B", " ", "\n", ".", "!", "?"}

\* a caller holds a transcript and is about to call formatTranscript
InitFormat ==
  /\ blobs = {}
  /\ rows = {}
  /\ nextId = 1
  /\ now = 0
  /\ started = 0
  /\ \E text \in TextsUpTo(FormatAlphabet, MaxTextLen) :
       up = [c \in Calls |->
               IF c = 1 THEN [IdleCall EXCEPT !.op = "format", !.pc = "format",
                                              !.text = text]
               ELSE IdleCall]
  /\ ts = [c \in Calls |-> NoSession]
  /\ lectures = [l \in Lectures |-> [has_transcript |-> FALSE]]
  /\ form = FormIdle

\* TranscriptionService.formatTranscript(transcript) returns
FormatTranscript(c) ==
  /\ up[c].pc = "format"
  /\ up' = [up EXCEPT ![c] = [@ EXCEPT !.pc = "done",
                                       !.returned = Some(formatTranscript(up[c].text))]]
  /\ UNCHANGED <<blobs, rows, nextId, now, started, ts, lectures, form>>

NextFormat == \E c \in Calls : FormatTranscript(c)

SpecFormat == InitFormat /\ [][NextFormat]_vars

\* ----------------------------------------- generateSummary called on its own
\* the texts the summary is taken of: letters with one kind of mark, and
\* marks of two kinds side by side
SummaryAlphabets == {{"a", "."}, {"a", "!"}, {"a", "?"}, {".", "!"}, {"!", "?"}}

\* a text of letters with a single period at one index (counted from 0)
OneMark(length, index) == [i \in 1..length |-> IF i = index + 1 THEN "." ELSE "a"]

\* every short text with every short maxLength, and for each multiple of
\* ten as maxLength the texts one longer than it with one period
SummaryInputs ==
  {<<text, maxLength>> :
     text \in UNION {TextsUpTo(alphabet, MaxSummaryLen) : alphabet \in SummaryAlphabets},
     maxLength \in 0..MaxSummaryLen}
  \cup UNION {{<<OneMark(10 * k + 1, index), 10 * k>> : index \in 0..(10 * k)} :
                k \in 1..MaxTens}

\* a caller holds a transcript and is about to call generateSummary
InitSummary ==
  /\ blobs = {}
  /\ rows = {}
  /\ nextId = 1
  /\ now = 0
  /\ started = 0
  /\ \E input \in SummaryInputs :
       up = [c \in Calls |->
               IF c = 1 THEN [IdleCall EXCEPT !.op = "summary", !.pc = "summary",
                                              !.text = input[1],
                                              !.maxLength = input[2]]
               ELSE IdleCall]
  /\ ts = [c \in Calls |-> NoSession]
  /\ lectures = [l \in Lectures |-> [has_transcript |-> FALSE]]
  /\ form = FormIdle

\* TranscriptionService.generateSummary(transcript, maxLength) returns
GenerateSummary(c) ==
  /\ up[c].pc = "summary"
  /\ up' = [up EXCEPT ![c] = [@ EXCEPT !.pc = "done",
              !.returned = Some(generateSummary(up[c].text, up[c].maxLength))]]
  /\ UNCHANGED <<blobs, rows, nextId, now, started, ts, lectures, form>>

NextSummary == \E c \in Calls : GenerateSummary(c)

SpecSummary == InitSummary /\ [][NextSummary]_vars

\* ---------------------------------------- generateFilePath called on its own
\* a lower-case and an upper-case letter, a digit, the two marks the class
\* keeps, and characters outside the class
PathAlphabet == {"a", "Z", "7", ".", "-", "_", " ", "/", "#"}

PathLectures == {"L1", "L2"}

\* files that differ in more than their name
PathFiles ==
  {[name |-> name, type |-> kind[1], size |-> kind[2]] :
     name \in TextsUpTo(PathAlphabet, MaxNameLen),
     kind \in {<<"audio/webm", 1024>>, <<"application/pdf", 5 * 1024 * 1024>>}}

\* a caller holds a lecture identifier and a file; the clock shows any time
InitPath ==
  /\ blobs = {}
  /\ rows = {}
  /\ nextId = 1
  /\ now \in 0..MaxPathTime
  /\ started = 0
  /\ \E lectureId \in PathLectures, file \in PathFiles :
       up = [c \in Calls |->
               IF c = 1 THEN [IdleCall EXCEPT !.op = "path", !.pc = "path",
                                              !.lectureId = lectureId,
                                              !.file = file]
               ELSE IdleCall]
  /\ ts = [c \in Calls |-> NoSession]
  /\ lectures = [l \in Lectures |-> [has_transcript |-> FALSE]]
  /\ form = FormIdle

\* FileUploadService.generateFilePath(lectureId, fileName) returns
GenerateFilePath(c) ==
  /\ up[c].pc = "path"
  /\ up' = [up EXCEPT ![c] = [@ EXCEPT !.pc = "done",
              !.returned = Some(generateFilePath(up[c].lectureId, up[c].file.name, now))]]
  /\ UNCHANGED <<blobs, rows, nextId, now, started, ts, lectures, form>>

NextPath == \E c \in Calls : GenerateFilePath(c)

SpecPath == InitPath /\ [][NextPath]_vars

\* ------------------------------------------------ uploads that run together
\* uploadFile calls whose awaits interleave: a second call may start while
\* the first waits for the storage or the database
NextConcurrent ==
  \/ \E c \in Calls, file \in TestFiles, lectureId \in Lectures,
        timestamp \in 0..MaxTime :
       /\ started < MaxUploads
       /\ UploadFile(c, file, lectureId, FALSE, FALSE, timestamp)
       /\ UNCHANGED form
  \/ \E c \in Calls, outcome \in {"ok", "error", "throw"} : PutResponds(c, outcome)
  \/ \E c \in Calls, reported \in ReportedDurations : ProbeLoaded(c, reported)
  \/ \E c \in Calls : ProbeError(c)
  \/ \E c \in Calls, outcome \in {"ok", "error", "throw"} : InsertResponds(c, outcome)
  \/ \E c \in Calls, outcome \in {"ok", "error", "throw"} : RemoveResponds(c, outcome)

SpecConcurrent == Init /\ [][NextConcurrent]_vars

\* ------------------------------------------ upload form (LectureUpload) actions
\* the files the teacher chooses: a recording and a slide deck
FormFiles ==
  {[name |-> AudioName, type |-> "audio/webm", size |-> 5 * 1024 * 1024],
   [name |-> SlidesName, type |-> "application/pdf", size |-> 2 * 1024 * 1024]}

\* handleFileUpload: a valid audio file becomes the audio of the form, any
\* other valid file is queued
HandleFileUpload(file) ==
  /\ form.pc = "idle"
  /\ validateFile(file).valid
  /\ IF getFileType(file.type) = Some("audio")
     THEN form' = [form EXCEPT !.audioFile = Some(file)]
     ELSE /\ Len(form.pendingFiles) < MaxPending
          /\ form' = [form EXCEPT !.pendingFiles = Append(@, file)]
  /\ UNCHANGED <<blobs, rows, nextId, now, started, up, ts, lectures>>

\* handleSubmit up to `await supabase.auth.refreshSession()`; the title is
\* filled in
HandleSubmit ==
  /\ form.pc = "idle"
  /\ form.lectureId # None \/ form.audioFile # None \/ form.pendingFiles # <<>>
  /\ form.lectureId = None => form.created # Lectures
  /\ form' = [form EXCEPT !.pc = "refresh"]
  /\ UNCHANGED <<blobs, rows, nextId, now, started, up, ts, lectures>>

\* the session refresh settles, either way; the lecture is inserted when the
\* form has no lectureId and updated when it has one
RefreshResponds ==
  /\ form.pc = "refresh"
  /\ form' = [form EXCEPT !.pc = "lecture"]
  /\ UNCHANGED <<blobs, rows, nextId, now, started, up, ts, lectures>>

\* the wrapper uploadFile of the form calls FileUploadService.uploadFile with
\* the lecture of the submission; transcription is switched off in the form
FormUpload(f, file, isPrimary) ==
  \E c \in Calls, timestamp \in 0..MaxFormTime :
    /\ started < MaxFormUploads
    /\ UploadFile(c, file, f.lectureId[1], isPrimary, FALSE, timestamp)
    /\ form' = [f EXCEPT !.frame = c]

\* handleSubmit: the loop over pendingFiles from position i on and, past its
\* end, the reset of the form (or the early return when nothing was chosen)
UploadPending(f, i) ==
  IF i <= Len(f.pendingFiles)
  THEN FormUpload([f EXCEPT !.pc = "pending", !.index = i], f.pendingFiles[i],
                  f.audioFile = None /\ i = 1)
  ELSE /\ form' = IF f.audioFile = None /\ f.pendingFiles = <<>>
                  THEN [f EXCEPT !.pc = "idle"]
                  ELSE [FormIdle EXCEPT !.created = f.created]
       /\ UNCHANGED <<blobs, rows, nextId, now, started, up, ts, lectures>>

\* the insert or update of the lecture responds; on success the audio is
\* uploaded as the primary file, or the loop over pendingFiles begins
LectureResponds(outcome) ==
  /\ form.pc = "lecture"
  /\ CASE outcome = "error" ->
            /\ form' = [form EXCEPT !.pc = "idle"]
            /\ UNCHANGED <<blobs, rows, nextId, now, started, up, ts, lectures>>
       [] outcome = "ok" ->
            \E id \in (IF form.lectureId = None THEN Lectures \ form.created
                       ELSE {form.lectureId[1]}) :
              LET f == [form EXCEPT !.lectureId = Some(id),
                                    !.created = @ \cup {id}]
              IN  IF f.audioFile # None
                  THEN FormUpload([f EXCEPT !.pc = "audio"], f.audioFile[1], TRUE)
                  ELSE UploadPending(f, 1)

\* the awaited upload returns to the wrapper, which throws unless it
\* succeeded; handleSubmit goes on with the next file or lands in its catch
\* block, which keeps lectureId, audioFile and pendingFiles as they are
FormUploadReturns(c) ==
  /\ form.pc \in {"audio", "pending"}
  /\ form.frame = c
  /\ up[c].op = "upload" /\ up[c].pc = "done"
  /\ IF up[c].result.success /\ up[c].result.fileId # None
     THEN UploadPending(form, IF form.pc = "audio" THEN 1 ELSE form.index + 1)
     ELSE /\ form' = [form EXCEPT !.pc = "idle"]
          /\ UNCHANGED <<blobs, rows, nextId, now, started, up, ts, lectures>>

NextSubmit ==
  \/ \E file \in FormFiles : HandleFileUpload(file)
  \/ HandleSubmit
  \/ RefreshResponds
  \/ \E outcome \in {"ok", "error"} : LectureResponds(outcome)
  \/ \E c \in Calls : FormUploadReturns(c)
  \/ \E c \in Calls, outcome \in {"ok", "error", "throw"} : PutResponds(c, outcome)
  \/ \E c \in Calls, reported \in ReportedDurations : ProbeLoaded(c, reported)
  \/ \E c \in Calls : ProbeError(c)
  \/ \E c \in Calls, outcome \in {"ok", "error", "throw"} : InsertResponds(c, outcome)
  \/ \E c \in Calls, outcome \in {"ok", "error", "throw"} : RemoveResponds(c, outcome)

SpecSubmit == Init /\ [][NextSubmit]_vars

\* ------------------------------------------------------------------ claims
Uploading(c) == up[c].op = "upload"
Returned(c) == up[c].op = "upload" /\ up[c].pc = "done"
SessionOf(c) == ts[c].tpc # "none"

\* C1: when the metadata insert failed after the blob was written and the
\* compensating storage delete succeeded, uploadFile returns with the
\* generated key absent from the blob store and without a row written: the
\* failed insert and the delete leave the table as it was.
C1_RollbackRemovesBlob ==
  [][\A c \in Calls :
       /\ (up[c].pc = "insert" /\ up'[c].seen.insert = "error") => rows' = rows
       /\ (up[c].pc = "remove" /\ up'[c].seen.remove = "ok") =>
            /\ up'[c].pc = "done"
            /\ up[c].seen.insert = "error"
            /\ up[c].filePath[1] \notin blobs'
            /\ rows' = rows]_vars

C1_Witness ==
  \E c \in Calls :
    /\ Returned(c)
    /\ up[c].seen.put = "ok" /\ up[c].seen.insert = "error" /\ up[c].seen.remove = "ok"
    /\ up[c].filePath[1] \notin blobs

\* C2 (as stated): whenever the metadata insert failed, uploadFile returns a
\* failure that carries the database error, whatever the compensating delete
\* did.
C2_InsertFailureReportsDatabaseError ==
  \A c \in Calls :
    (Returned(c) /\ up[c].seen.insert \in {"error", "throw"}) =>
      /\ ~up[c].result.success
      /\ up[c].result.error \in {"database error", "database exception"}

\* C3 (as stated): every persisted record with transcript_status 'completed'
\* has a transcript that is neither null nor empty.
C3_CompletedHasTranscript ==
  \A r \in rows :
    r.transcript_status = "completed" =>
      r.transcript # None /\ r.transcript[1] # <<>>

\* C4 (as stated): every call of uploadFile eventually returns, given that
\* every collaborator eventually responds.
C4_UploadEventuallyReturns ==
  \A c \in Calls :
    (Uploading(c) /\ up[c].pc # "done") ~> (up[c].pc = "done")

\* C5 (as stated): when the audio element reports an error while loading
\* (the recognizer was never started), the promise of transcribeAudio is
\* rejected with the media-load failure.
C5_LoadErrorRejects ==
  \A c \in Calls :
    (ts[c].audio = "error" /\ ts[c].recog = "idle") =>
      ts[c].promise = Rejected(MediaLoadError)

\* C6 (as stated): within one call of transcribe the external service is
\* invoked at most once.
C6_RemoteAtMostOnce ==
  \A c \in Calls : ts[c].remoteCalls <= 1

\* C7: with the capability supported on entry and remote not preferred,
\* transcribe tries the local path first and calls the external service only
\* after the local attempt failed; when the capability is still reported
\* supported in the catch block the service is called exactly once and its
\* text is what transcribe returns; the local failure is what transcribe
\* surfaces exactly when the capability is then reported unsupported, and no
\* fallback is made.
C7_LocalFirstThenFallbackOnce ==
  \A c \in Calls :
    (SessionOf(c) /\ ~ts[c].useExternal /\ ts[c].checkedAtEntry = Some(TRUE)) =>
      /\ ts[c].localCalls = 1
      /\ ts[c].remoteCalls > 0 => ts[c].promise.state = "rejected"
      /\ ts[c].promise.state = "resolved" =>
           ts[c].tpc = "settled" /\ ts[c].outcome = ts[c].promise
      /\ (ts[c].promise.state = "rejected" /\ ts[c].checkedAtCatch = Some(TRUE)) =>
           /\ ts[c].remoteCalls = 1
           /\ ts[c].tpc \in {"fallback", "settled"}
           /\ (ts[c].tpc = "settled" /\ ts[c].remoteErrors = 0) =>
                ts[c].outcome = Resolved(MockTranscript(up[c].file.name))
      /\ (ts[c].promise.state = "rejected" /\ ts[c].checkedAtCatch = Some(FALSE)) =>
           /\ ts[c].remoteCalls = 0
           /\ ts[c].tpc = "settled" /\ ts[c].outcome = ts[c].promise
      /\ (ts[c].tpc = "settled" /\ ts[c].outcome.state = "rejected"
            /\ ts[c].outcome = ts[c].promise) =>
           ts[c].checkedAtCatch = Some(FALSE) /\ ts[c].remoteCalls = 0
      /\ ts[c].promise.state = "rejected" => ts[c].checkedAtCatch # None

C7_Witness ==
  \E c \in Calls :
    /\ ~ts[c].useExternal /\ ts[c].checkedAtEntry = Some(TRUE)
    /\ ts[c].promise.state = "rejected" /\ ts[c].checkedAtCatch = Some(TRUE)
    /\ ts[c].tpc = "settled" /\ ts[c].remoteCalls = 1
    /\ ts[c].outcome = Resolved(MockTranscript(up[c].file.name))

C9_TranscriptionFailureStillPersists ==
  \A c \in Calls :
    (Uploading(c) /\ ts[c].tpc = "settled" /\ ts[c].outcome.state = "rejected") =>
      /\ up[c].pc \in {"insert", "remove", "done"}
      /\ up[c].calls.insert = 1
      /\ up[c].transcriptStatus = "failed" /\ up[c].transcript = None
      /\ up[c].seen.insert = "ok" =>
           /\ up[c].pc = "done" /\ up[c].result.success
           /\ \E r \in rows :
                /\ Some(r.id) = up[c].result.fileId
                /\ r.file_path = up[c].filePath[1]
                /\ r.transcript_status = "failed" /\ r.transcript = None

C9_Witness ==
  \E c \in Calls :
    /\ Returned(c) /\ up[c].result.success
    /\ ts[c].tpc = "settled" /\ ts[c].outcome.state = "rejected"
    /\ \E r \in rows : Some(r.id) = up[c].result.fileId /\ r.transcript_status = "failed"

\* C10: when the storage upload fails (an error or an exception), uploadFile
\* returns a failure in that same step, having made no duration probe, no
\* transcription, no insert and no storage delete; table and bucket are left
\* as they were.
C10_PutFailureAborts ==
  [][\A c \in Calls :
       (up[c].pc = "put" /\ up'[c].seen.put \in {"error", "throw"}) =>
         /\ up'[c].pc = "done" /\ ~up'[c].result.success
         /\ up'[c].result.error \in {"storage error", "storage exception"}
         /\ up'[c].calls = [put |-> 1, probe |-> 0, transcribe |-> 0,
                            insert |-> 0, remove |-> 0]
         /\ ts'[c] = NoSession
         /\ rows' = rows /\ blobs' = blobs /\ nextId' = nextId]_vars

C10_Witness ==
  \E c \in Calls :
    /\ Returned(c) /\ up[c].seen.put \in {"error", "throw"}
    /\ up[c].calls.insert = 0 /\ ~up[c].result.success

\* C11: a call of uploadFile whose file fails validation (its size is over
\* the maximum, or its MIME type is outside the allow-list) returns the
\* validation failure in its first step, having called neither the blob
\* store nor the database nor the probe nor transcription; bucket and table
\* are left as they were.
C11_InvalidFileTouchesNothing ==
  [][\A c \in Calls :
       (up'[c] # up[c] /\ up'[c].op = "upload"
          /\ (up'[c].file.size > 104857600 \/ getFileType(up'[c].file.type) = None)) =>
         /\ up'[c].pc = "done" /\ ~up'[c].result.success
         /\ up'[c].result.error \in {"File size must be less than 100MB",
                                     "Unsupported file type"}
         /\ up'[c].result.filePath = None /\ up'[c].result.fileId = None
         /\ up'[c].calls = [put |-> 0, probe |-> 0, transcribe |-> 0,
                            insert |-> 0, remove |-> 0]
         /\ ts'[c] = NoSession
         /\ blobs' = blobs /\ rows' = rows /\ nextId' = nextId]_vars

C11_Witness ==
  \E c \in Calls :
    /\ Returned(c) /\ up[c].file.size > 104857600
    /\ up[c].result = Failure("File size must be less than 100MB")
    /\ up[c].calls.put = 0 /\ up[c].calls.insert = 0
    /\ blobs = {} /\ rows = {}

\* C12: validateFile accepts a file exactly when its size is at most
\* 104857600 bytes (100 MiB, the bound itself accepted) and getFileType maps
\* its MIME type to one of audio, pdf, presentation, document, video; a
\* refused file carries the message of the first failing test.
C12_ValidateAcceptsIffSizeAndType ==
  \A c \in Calls :
    (up[c].op = "validate" /\ up[c].pc = "done") =>
      LET sizeOk == up[c].file.size <= 104857600
          typeOk == getFileType(up[c].file.type) \in
                      {Some("audio"), Some("pdf"), Some("presentation"),
                       Some("document"), Some("video")}
      IN  /\ up[c].result.success <=> (sizeOk /\ typeOk)
          /\ ~sizeOk => up[c].result.error = "File size must be less than 100MB"
          /\ (sizeOk /\ ~typeOk) => up[c].result.error = "Unsupported file type"

C12_Witness ==
  \E c \in Calls :
    /\ up[c].op = "validate" /\ up[c].pc = "done"
    /\ up[c].file.size = 104857600 /\ up[c].file.type = "video/webm"
    /\ up[c].result.success

\* C13: in local transcription the recognizer is started only by the step
\* in which the audio element reports its data loaded, and the service stops
\* it only in the step of the settle timer, which only the audio 'ended'
\* event arms: a recognizer that has been started has an audio element that
\* is past loading, and a recognizer the service stopped has an audio
\* element that ended and a settle timer that fired.
C13_StartAfterLoadStopAfterSettle ==
  [][\A c \in Calls :
       /\ (ts'[c].recog = "started" /\ ts[c].recog # "started") =>
            ts[c].audio = "loading" /\ ts'[c].audio = "playing"
       /\ (ts'[c].timer = "armed" /\ ts[c].timer # "armed") =>
            ts[c].audio = "playing" /\ ts'[c].audio = "ended"
       /\ (ts'[c].recog = "stopping" /\ ts[c].recog # "stopping") =>
            /\ ts[c].audio = "ended"
            /\ ts[c].timer = "armed" /\ ts'[c].timer = "fired"
       /\ ts'[c].recog \in {"started", "stopping", "ended", "errored"} =>
            ts'[c].audio \in {"playing", "ended", "error"}
       /\ ts'[c].recog = "stopping" =>
            ts'[c].audio = "ended" /\ ts'[c].timer = "fired"]_vars

C13_Witness ==
  \E c \in Calls :
    /\ ts[c].tpc = "local" /\ ts[c].recog = "stopping"
    /\ ts[c].audio = "ended" /\ ts[c].timer = "fired"

\* C14 (as stated): the promise of transcribeAudio is resolved only after
\* audio playback has ended and the settle delay has elapsed, also when the
\* recognizer emits its end event on its own; the value is the trimmed,
\* space-joined text of the final results received so far.
C14_ResolvesAfterPlaybackAndSettle ==
  \A c \in Calls :
    (ts[c].localCalls = 1 /\ ts[c].promise.state = "resolved") =>
      /\ ts[c].audio = "ended" /\ ts[c].timer = "fired"
      /\ ts[c].promise.text = Trim(ts[c].transcript)

\* the record a returned, successful call of uploadFile persisted
RowOf(c) == CHOOSE r \in rows : Some(r.id) = up[c].result.fileId

\* the call has passed the transcription decision of uploadFile line 113
PastDecision(c) == up[c].calls.transcribe + up[c].calls.insert > 0

\* C15: an upload that gets past the storage upload calls transcription,
\* once, exactly when the caller enabled it and the kind of the file is
\* audio.  For every other upload neither the local nor the remote path is
\* entered and the record it persists has transcript_status 'pending' and a
\* null transcript; for a kind other than audio and video no probe is made
\* and the duration is unset, in the call and in the persisted record.
C15_TranscribesIffEnabledAudio ==
  \A c \in Calls :
    Uploading(c) =>
      LET kind == getFileType(up[c].file.type)
          wanted == up[c].enableTranscription /\ kind = Some("audio")
          persisted == up[c].pc = "done" /\ up[c].result.success
      IN  /\ up[c].calls.transcribe = IF wanted /\ PastDecision(c) THEN 1 ELSE 0
          /\ SessionOf(c) <=> up[c].calls.transcribe = 1
          /\ persisted => \E r \in rows : Some(r.id) = up[c].result.fileId
          /\ ~wanted =>
               /\ ts[c] = NoSession
               /\ up[c].transcriptStatus = "pending" /\ up[c].transcript = None
               /\ persisted =>
                    /\ RowOf(c).transcript_status = "pending"
                    /\ RowOf(c).transcript = None
          /\ kind \notin {Some("audio"), Some("video")} =>
               /\ up[c].calls.probe = 0 /\ up[c].duration = None
               /\ persisted => RowOf(c).duration = None

C15_Witness ==
  \E c \in Calls :
    /\ Returned(c) /\ up[c].result.success
    /\ up[c].enableTranscription /\ up[c].file.type = "application/pdf"
    /\ up[c].calls.transcribe = 0
    /\ RowOf(c).transcript_status = "pending" /\ RowOf(c).duration = None

\* an audio upload with transcription enabled that reached the transcription
\* step while isSupported() reported the capability missing, at every read
UnsupportedAudioUpload(c) ==
  /\ Uploading(c) /\ up[c].enableTranscription
  /\ getFileType(up[c].file.type) = Some("audio")
  /\ ts[c].checkedAtEntry = Some(FALSE)
  /\ ts[c].checkedAtCatch # Some(TRUE)

ResultFromStore(c) ==
  CASE up[c].seen.insert = "ok" ->
         [success |-> TRUE, error |-> "", filePath |-> up[c].filePath,
          fileId |-> up[c].result.fileId]
    [] up[c].seen.insert = "throw" -> Failure("database exception")
    [] up[c].seen.insert = "error" /\ up[c].seen.remove = "throw" ->
         Failure("remove exception")
    [] OTHER -> Failure("database error")

\* C17: the duration probe is made only for files of kind audio or video,
\* at most once.  A failed probe does not end the upload: the call goes on
\* to the transcription decision with the duration unset, a record it
\* persists has no duration, and what uploadFile returns is determined by
\* the responses of the insert and of the compensating delete exactly as
\* after a successful probe.
C17_ProbeFailureIsNotFatal ==
  \A c \in Calls :
    (Uploading(c) /\ up[c].calls.probe > 0) =>
      /\ up[c].calls.probe = 1
      /\ getFileType(up[c].file.type) \in {Some("audio"), Some("video")}
      /\ up[c].seen.probe = "error" =>
           /\ PastDecision(c)
           /\ up[c].duration = None
           /\ up[c].pc = "done" => up[c].seen.insert # "none"
           /\ (up[c].pc = "done" /\ up[c].result.success) => RowOf(c).duration = None
      /\ (up[c].seen.probe # "none" /\ up[c].pc = "done") =>
           /\ up[c].result = ResultFromStore(c)
           /\ up[c].result.success =>
                \E r \in rows : Some(r.id) = up[c].result.fileId
                                  /\ r.file_path = up[c].filePath[1]

C17_Witness ==
  \E c \in Calls :
    /\ Returned(c) /\ up[c].seen.probe = "error" /\ up[c].result.success
    /\ RowOf(c).duration = None /\ RowOf(c).file_type = "video"

\* the call awaited `call` and saw one of `outcomes`
Saw(c, call, outcomes) ==
  \E i \in 1..Len(up[c].log) :
    up[c].log[i].call = call /\ up[c].log[i].outcome \in outcomes

\* C18 (as stated): whenever no upload and no delete is in flight, every row
\* of lecture_files names a blob that is present in the bucket.
C18_RowImpliesBlob ==
  (\A c \in Calls : up[c].op \in {"upload", "delete"} => up[c].pc \in {"idle", "done"}) =>
    \A r \in rows : r.file_path \in blobs

\* C19 (as stated): deleteFile returns true exactly when the fetch of the
\* record and the deletion of the row both succeeded; a failed storage
\* deletion does not keep the row deletion from being made; after a failed
\* fetch deleteFile returns false having called neither storage nor the row
\* deletion.
C19_DeleteResult ==
  \A c \in Calls :
    (up[c].op = "delete" /\ up[c].pc = "done") =>
      /\ up[c].returned = Some(TRUE) <=>
           (Saw(c, "fetch", {"ok"}) /\ Saw(c, "rowDelete", {"ok"}))
      /\ Saw(c, "storageRemove", {"error", "throw"}) =>
           Saw(c, "rowDelete", {"ok", "error", "throw"})
      /\ ~Saw(c, "fetch", {"ok"}) =>
           up[c].returned = Some(FALSE) /\ Len(up[c].log) = 1

\* the primary records of a lecture
PrimaryRows(table, lectureId) ==
  {r \in table : r.lecture_id = lectureId /\ r.is_primary}

\* C20: set-primary is two updates with nothing holding them together.  The
\* step in which the first one succeeds leaves the lecture with no primary
\* record, whatever the call then does; the step in which the second one
\* succeeds makes the target primary and leaves every other record as it
\* is, so that a record an overlapping call made primary in between stays
\* primary; a failed first update is not noticed and changes nothing.
C20_SetPrimaryNotAtomic ==
  [][\A c \in Calls :
       /\ (up[c].pc = "clear" /\ up'[c].pc = "set"
             /\ Last(up'[c].log).outcome = "ok") =>
            PrimaryRows(rows', up[c].lectureId) = {}
       /\ (up[c].pc = "clear" /\ up'[c].pc = "set"
             /\ Last(up'[c].log).outcome = "error") =>
            rows' = rows
       /\ (up[c].pc = "set" /\ up'[c].pc = "done"
             /\ Last(up'[c].log).outcome = "ok") =>
            /\ \A r \in rows' : r.id = up[c].fileId[1] => r.is_primary
            /\ {r \in rows' : r.id # up[c].fileId[1]}
                 = {r \in rows : r.id # up[c].fileId[1]}]_vars

\* two overlapping set-primary calls for different files of one lecture both
\* completed, each with both updates successful, and both files are primary
C20_Witness ==
  \E c, d \in Calls :
    /\ c # d /\ up[c].fileId # up[d].fileId /\ up[c].lectureId = up[d].lectureId
    /\ \A e \in {c, d} :
         /\ up[e].op = "setPrimary" /\ up[e].pc = "done"
         /\ up[e].log = <<[call |-> "clear", outcome |-> "ok"],
                          [call |-> "set", outcome |-> "ok"]>>
         /\ \E r \in rows : r.id = up[e].fileId[1] /\ r.is_primary
    /\ Cardinality(PrimaryRows(rows, up[c].lectureId)) > 1

\* C22 (as stated): a lecture that owns a file record with transcript_status
\* 'completed' has has_transcript = true.
C22_CompletedSetsHasTranscript ==
  \A r \in rows :
    r.transcript_status = "completed" => lectures[r.lecture_id].has_transcript

\* every collaborator of the returned upload did what it was asked: the blob
\* was stored, the probe (if made) loaded, and the insert was refused only
\* where a CHECK constraint of the table refuses the row
CollaboratorsSucceeded(c) ==
  /\ up[c].seen.put = "ok"
  /\ up[c].seen.probe # "error"
  /\ up[c].seen.insert \in {"ok", "error"}
  /\ up[c].seen.insert = "error" => ~RowAccepted(NewRow(up[c], nextId))
  /\ up[c].seen.remove \in {"none", "ok"}

\* C21 (as stated): after an allow-listed file of any kind was uploaded to a
\* lecture without files, all collaborators succeeding, getLectureFiles for
\* that lecture returns exactly one record, whose size, MIME type, kind and
\* storage path are those of the upload.
C21_RoundTrip ==
  [][\A c, d \in Calls :
       (/\ c # d
        /\ up[c].op = "upload" /\ up[c].pc = "done"
        /\ validateFile(up[c].file).valid /\ CollaboratorsSucceeded(c)
        /\ \A r \in rows : r.lecture_id = up[c].lectureId =>
                             Some(r.id) = up[c].result.fileId
        /\ up[d].op = "list" /\ up[d].pc = "select" /\ up'[d].pc = "done"
        /\ up[d].lectureId = up[c].lectureId
        /\ Last(up'[d].log).outcome = "ok") =>
         LET files == up'[d].returned[1]
         IN  /\ Len(files) = 1
             /\ files[1].file_size = up[c].file.size
             /\ files[1].mime_type = up[c].file.type
             /\ Some(files[1].file_type) = getFileType(up[c].file.type)
             /\ Some(files[1].file_path) = up[c].result.filePath]_vars

\* C28 (as stated): the kind uploadFile writes into file_type for a file
\* that passed validation is a value the file_type CHECK constraint of
\* lecture_files accepts, so the insert is not refused because of the kind.
C28_KindAcceptedByCheck ==
  \A c \in Calls :
    (Uploading(c) /\ validateFile(up[c].file).valid /\ up[c].calls.insert > 0) =>
      NewRow(up[c], nextId).file_type \in FileTypeCheck

\* the positions of a text that survive collapsing and trimming: every
\* character that is not whitespace, and the first whitespace of every run
\* that has such a character before it and after it
KeptPositions(text) ==
  {i \in 1..Len(text) :
     \/ ~IsSpace(text[i])
     \/ /\ i > 1 /\ ~IsSpace(text[i - 1])
        /\ \E j \in (i + 1)..Len(text) : ~IsSpace(text[j])}

\* the text with every run of whitespace collapsed to one space and the
\* ends trimmed, read off position by position
Collapsed(text) ==
  LET kept == KeptPositions(text)
      nth(k) == CHOOSE i \in kept : Cardinality({j \in kept : j < i}) = k - 1
  IN  [k \in 1..Cardinality(kept) |->
         IF IsSpace(text[nth(k)]) THEN " " ELSE text[nth(k)]]

\* C23: formatTranscript returns its input with every run of whitespace
\* collapsed to one space and the ends trimmed, a period appended when that
\* text is not empty and does not end in '.', '!' or '?', and the first
\* character upper-cased.  Empty and whitespace-only input yield the empty
\* text; a text that ends in a terminal mark gets no second mark.
C23_FormatTranscript ==
  \A c \in Calls :
    (up[c].op = "format" /\ up[c].pc = "done") =>
      LET out == up[c].returned[1]
          body == Collapsed(up[c].text)
      IN  /\ body = <<>> => out = <<>>
          /\ (body # <<>> /\ Last(body) \in {".", "!", "?"}) =>
               /\ Len(out) = Len(body)
               /\ Tail(out) = Tail(body)
          /\ (body # <<>> /\ Last(body) \notin {".", "!", "?"}) =>
               /\ Len(out) = Len(body) + 1 /\ Last(out) = "."
               /\ Tail(out) = Tail(body) \o <<".">>
          /\ body # <<>> =>
               Head(out) = IF Head(body) = "a" THEN "A" ELSE Head(body)

C23_Witness ==
  \E c \in Calls :
    /\ up[c].op = "format" /\ up[c].pc = "done"
    /\ up[c].text = <<" ", "a", "\n", "B">>
    /\ up[c].returned = Some(<<"A", " ", "B", ".">>)


\* C24: generateSummary(text, N) is at most N + 3 long; a text of at most N
\* characters comes back unchanged; of a longer text, when the N-character
\* prefix holds a '.', '!' or '?' at an index past 70% of N the result is the
\* prefix cut right after the rightmost mark, and otherwise the prefix
\* followed by '...'.
C24_GenerateSummary ==
  \A c \in Calls :
    (up[c].op = "summary" /\ up[c].pc = "done") =>
      LET text == up[c].text
          N == up[c].maxLength
          out == up[c].returned[1]
          prefix == SubSeq(text, 1, N)
          marks == {i \in 0..(N - 1) : prefix[i + 1] \in {".", "!", "?"}}
          past == {i \in marks : 10 * i > 7 * N}
          rightmost == CHOOSE i \in marks : \A j \in marks : j <= i
      IN  /\ Len(out) <= N + 3
          /\ Len(text) <= N => out = text
          /\ Len(text) > N =>
               IF past # {} THEN out = SubSeq(prefix, 1, rightmost + 1)
               ELSE out = prefix \o <<".", ".", ".">>


\* C25: generateFilePath returns lectures/<lectureId>/<timestamp>_<sanitized>,
\* where the sanitized name is as long as the file name and equal to it
\* character by character, except that every character other than a letter,
\* a digit, '.' and '-' is replaced by '_'; the lecture identifier, the
\* timestamp and the file name determine the result.
C25_GenerateFilePath ==
  \A c \in Calls :
    (up[c].op = "path" /\ up[c].pc = "done") =>
      LET path == up[c].returned[1]
          name == up[c].file.name
      IN  /\ Len(path) = 4
          /\ path[1] = "lectures"
          /\ path[2] = up[c].lectureId
          /\ path[3] = now
          /\ Len(path[4]) = Len(name)
          /\ \A i \in 1..Len(name) :
               path[4][i] = IF name[i] \in {"a", "Z", "7", ".", "-"}
                            THEN name[i] ELSE "_"

C25_Witness ==
  \E c \in Calls :
    /\ up[c].op = "path" /\ up[c].pc = "done"
    /\ up[c].file.name = <<"Z", " ", ".">>
    /\ up[c].returned = Some(<<"lectures", "L2", 1, <<"Z", "_", ".">>>>)


\* C26: an uploadFile attempt takes its steps in the order validate, blob
\* put, duration probe (audio and video only), transcription (opted-in audio
\* only), metadata insert.  Each step is taken at most once; the insert is
\* issued only after the put succeeded and after the probe and the
\* transcription, when they ran, have settled; the compensating delete is
\* issued only after the insert was refused.
C26_StepsInOrder ==
  \A c \in Calls :
    Uploading(c) =>
      LET u == up[c]
          kind == getFileType(u.file.type)
      IN  /\ \A step \in DOMAIN u.calls : u.calls[step] <= 1
          /\ u.calls.put > 0 => validateFile(u.file).valid
          /\ u.calls.probe > 0 =>
               u.seen.put = "ok" /\ kind \in {Some("audio"), Some("video")}
          /\ u.calls.transcribe > 0 =>
               /\ u.seen.put = "ok" /\ u.seen.probe # "none"
               /\ u.enableTranscription /\ kind = Some("audio")
          /\ u.calls.insert > 0 =>
               /\ u.seen.put = "ok"
               /\ kind \in {Some("audio"), Some("video")} => u.seen.probe # "none"
               /\ (u.enableTranscription /\ kind = Some("audio")) =>
                    u.calls.transcribe = 1 /\ ts[c].tpc = "settled"
          /\ u.calls.remove > 0 => u.seen.insert = "error"

C26_Witness ==
  \E c \in Calls :
    /\ Uploading(c) /\ up[c].pc = "done"
    /\ \A step \in DOMAIN up[c].calls : up[c].calls[step] = 1
    /\ up[c].seen.remove = "ok"


\* two uploads in different frames that generated the same storage key
SameKey(c, d) ==
  /\ c # d /\ Uploading(c) /\ Uploading(d)
  /\ up[c].filePath # None /\ up[c].filePath = up[d].filePath

\* the upload wrote a blob and has not removed it
Holds(c) == Uploading(c) /\ up[c].seen.put = "ok" /\ up[c].seen.remove # "ok"

\* the upload whose put failed returns a failure, creates no row and issues
\* no delete
FailedPutTouchesNothing(c) ==
  up[c].seen.put \in {"error", "throw"} =>
    /\ up[c].pc = "done" /\ ~up[c].result.success
    /\ up[c].result.fileId = None
    /\ up[c].calls.insert = 0 /\ up[c].calls.remove = 0

\* a blob that an upload wrote and did not remove is in the store, and no
\* second upload wrote to its key: nobody deleted or replaced it
BlobsKeptForWriter ==
  /\ \A c \in Calls : Holds(c) => up[c].filePath[1] \in blobs
  /\ \A c, d \in Calls : SameKey(c, d) => ~(Holds(c) /\ Holds(d))
  /\ \A c \in Calls : (Uploading(c) /\ up[c].calls.remove > 0) => up[c].seen.put = "ok"

\* C27 (as stated): of two concurrent uploads with the same storage key at
\* most one put succeeds; the upload whose put failed returns a failure,
\* creates no row, and an upload only deletes a blob it wrote itself.
C27_AtMostOnePutSucceeds ==
  /\ \A c, d \in Calls :
       SameKey(c, d) => ~(up[c].seen.put = "ok" /\ up[d].seen.put = "ok")
  /\ \A c \in Calls : Uploading(c) => FailedPutTouchesNothing(c)
  /\ BlobsKeptForWriter

\* C27 (amended): of two concurrent uploads with the same storage key both
\* puts succeed only when one of them has removed its own blob in between
\* (its insert was refused); at any time at most one of them has a blob
\* standing.  The upload whose put failed returns a failure, creates no row,
\* and an upload only deletes a blob it wrote itself.
C27_AtMostOneBlobStanding ==
  /\ \A c, d \in Calls :
       (SameKey(c, d) /\ up[c].seen.put = "ok" /\ up[d].seen.put = "ok") =>
         (up[c].seen.remove = "ok" \/ up[d].seen.remove = "ok")
  /\ \A c \in Calls : Uploading(c) => FailedPutTouchesNothing(c)
  /\ BlobsKeptForWriter

C27_Witness ==
  \E c, d \in Calls :
    /\ SameKey(c, d)
    /\ up[c].pc = "done" /\ up[c].result.success /\ up[c].filePath[1] \in blobs
    /\ up[d].pc = "done" /\ up[d].seen.put = "error" /\ ~up[d].result.success
    /\ Cardinality(rows) = 1


\* C29: after any sequence of submissions of the upload form, a submission
\* that failed part-way after the primary audio was stored and was then
\* repeated for the same lecture included, each lecture has at most one file
\* record with is_primary = true.
C29_OnePrimaryPerLecture ==
  \A l \in Lectures : Cardinality(PrimaryRows(rows, l)) <= 1


\* C30: with one caller at a time, setPrimaryFile never leaves the lecture
\* with more than one primary record, whichever of its two updates fails:
\* when clearing the flags of the lecture fails, the flag of the target is
\* not set; when both updates succeed, exactly the target record of the
\* lecture is primary.
C30_SetPrimaryKeepsOnePrimary ==
  [][\A c \in Calls :
       (up[c].op = "setPrimary" /\ up'[c] # up[c]) =>
         /\ Cardinality(PrimaryRows(rows, up[c].lectureId)) <= 1 =>
              Cardinality(PrimaryRows(rows', up[c].lectureId)) <= 1
         /\ (up'[c].pc = "done" /\ up[c].log # <<>>
               /\ up[c].log[1].outcome # "ok") =>
              rows' = rows
         /\ (up'[c].pc = "done" /\ Len(up'[c].log) = 2
               /\ \A i \in 1..2 : up'[c].log[i].outcome = "ok") =>
              \A r \in rows' :
                r.lecture_id = up[c].lectureId =>
                  (r.is_primary <=> r.id = up[c].fileId[1])]_vars

====
